---- MODULE Spec2Model ----
(***************************************************************************)
(* Model of social_network.py: a SocialNetwork owning Person objects keyed  *)
(* by name (an insertion-ordered dict), each Person holding a list of       *)
(* references to its friends.                                               *)
(*                                                                          *)
(* Person objects live in `heap`; a reference is an index into it, so that   *)
(* Python's `is` and the default (identity) `==` of Person are equality of   *)
(* indices.  `out` holds the lines printed by the most recent call, `exc`    *)
(* the exception that call raised ("none" when it returned), and `call`      *)
(* the call itself (method and arguments).                                   *)
(***************************************************************************)
EXTENDS Integers, Sequences, FiniteSets, TLC

VARIABLES people, heap, out, exc, call

vars == <<people, heap, out, exc, call>>

(* ------------------------------ bounds --------------------------------- *)

\* The names the driver registers with add_person.
PersonNames == {"Jordan", "Alex", "Johnny"}

\* Number of further names the driver passes to add_friendship without ever
\* registering them (as the demo does with its missing person, line 112).
NumStrangers == 1

\* Those names, in the order they are drawn; the first NumStrangers are used.
StrangerList == <<"Morgan", "Taylor", "Casey">>

Strangers == {StrangerList[i] : i \in 1..NumStrangers}

\* Every string the driver passes as an argument.
Names == PersonNames \cup Strangers

(* ------------------------- dict (self.people) -------------------------- *)

\* `k in d`
Has(d, k) == \E i \in 1..Len(d) : d[i].key = k

\* `d[k]` for a key that is present
Get(d, k) == d[CHOOSE i \in 1..Len(d) : d[i].key = k].value

\* A buggy insertion that puts a new key first instead of last.
Set_front(d, k, v) ==
    IF Has(d, k)
    THEN [i \in 1..Len(d) |-> IF d[i].key = k THEN [key |-> k, value |-> v] ELSE d[i]]
    ELSE <<[key |-> k, value |-> v]>> \o d

\* `d[k] = v`: an existing key keeps its position, a new key goes last
Set(d, k, v) ==
    IF Has(d, k)
    THEN [i \in 1..Len(d) |-> IF d[i].key = k THEN [key |-> k, value |-> v] ELSE d[i]]
    ELSE Append(d, [key |-> k, value |-> v])

\* `x in lst`
Contains(lst, x) == \E i \in 1..Len(lst) : lst[i] = x

(* ------------------------------ Person --------------------------------- *)

\* Person.__init__
Person(name) == [name |-> name, friends |-> <<>>]

\* A buggy add_friend that appends without looking for the friend first.
add_friend_nodupcheck(h, self, friend) ==
    IF friend = self THEN h
    ELSE [h EXCEPT ![self].friends = Append(@, friend)]

\* A buggy add_friend that assigns a new one-element list instead of
\* appending to the stored one.
add_friend_replace(h, self, friend) ==
    IF friend = self THEN h
    ELSE IF ~Contains(h[self].friends, friend)
         THEN [h EXCEPT ![self].friends = <<friend>>]
         ELSE h

\* Person.add_friend: the heap after self.add_friend(friend)
add_friend(h, self, friend) ==
    IF friend = self THEN h
    ELSE IF ~Contains(h[self].friends, friend)
         THEN [h EXCEPT ![self].friends = Append(@, friend)]
         ELSE h

(* ------------------------- str comparison, sort ------------------------ *)

Upper == <<"A","B","C","D","E","F","G","H","I","J","K","L","M",
           "N","O","P","Q","R","S","T","U","V","W","X","Y","Z">>

Lower == <<"a","b","c","d","e","f","g","h","i","j","k","l","m",
           "n","o","p","q","r","s","t","u","v","w","x","y","z">>

\* ord(c) for an ASCII letter
Ord(c) ==
    IF \E i \in 1..26 : Upper[i] = c
    THEN 64 + (CHOOSE i \in 1..26 : Upper[i] = c)
    ELSE 96 + (CHOOSE i \in 1..26 : Lower[i] = c)

\* The characters of each string of PersonNames, StrangerList and the demo
Chars(s) ==
    CASE s = "Jordan" -> <<"J","o","r","d","a","n">>
      [] s = "Alex"   -> <<"A","l","e","x">>
      [] s = "Johnny" -> <<"J","o","h","n","n","y">>
      [] s = "Morgan" -> <<"M","o","r","g","a","n">>
      [] s = "Taylor" -> <<"T","a","y","l","o","r">>
      [] s = "Casey"  -> <<"C","a","s","e","y">>
      [] s = "Riley"  -> <<"R","i","l","e","y">>

RECURSIVE SeqLess(_, _)
\* lexicographic order of two character sequences by code point
SeqLess(u, v) ==
    IF v = <<>> THEN FALSE
    ELSE IF u = <<>> THEN TRUE
    ELSE IF Ord(Head(u)) # Ord(Head(v)) THEN Ord(Head(u)) < Ord(Head(v))
    ELSE SeqLess(Tail(u), Tail(v))

\* Python's `s < t` on str
StrLess(s, t) == SeqLess(Chars(s), Chars(t))

RECURSIVE Insert(_, _)
\* x placed after every element of the sorted list that is not greater
Insert(sorted, x) ==
    IF sorted = <<>> THEN <<x>>
    ELSE IF StrLess(x, Head(sorted)) THEN <<x>> \o sorted
    ELSE <<Head(sorted)>> \o Insert(Tail(sorted), x)

\* A buggy sort that leaves the list in its stored order.
Sorted_none(lst) == lst

RECURSIVE Sorted(_)
\* list.sort() on a list of str (stable, ascending)
Sorted(lst) ==
    IF lst = <<>> THEN <<>>
    ELSE Insert(Sorted(SubSeq(lst, 1, Len(lst) - 1)), lst[Len(lst)])

RECURSIVE Join(_, _)
\* sep.join(lst)
Join(sep, lst) ==
    IF lst = <<>> THEN ""
    ELSE IF Len(lst) = 1 THEN lst[1]
    ELSE lst[1] \o sep \o Join(sep, Tail(lst))

(* ------------------------------ messages ------------------------------- *)

MsgAlreadyExists(name) == "Person not added. " \o name \o " already exists!"

MsgDoesntExist(name) == "Friendship not created. " \o name \o " doesn't exist!"

MsgSelf == "Friendship not created. A person cannot be friends with themselves!"

(* --------------------------- SocialNetwork ----------------------------- *)

Init ==
    /\ people = <<>>
    /\ heap = <<>>
    /\ out = <<>>
    /\ exc = "none"
    /\ call = [op |-> "__init__", args |-> <<>>]

\* A buggy add_person that stores a fresh Person even when the name exists.
add_person_overwrite(name) ==
    /\ exc = "none"
    /\ call' = [op |-> "add_person", args |-> <<name>>]
    /\ heap' = Append(heap, Person(name))
    /\ people' = Set(people, name, Len(heap) + 1)
    /\ out' = <<>>
    /\ exc' = "none"

\* A buggy add_person that rejects a duplicate without printing anything.
add_person_silent(name) ==
    /\ exc = "none"
    /\ call' = [op |-> "add_person", args |-> <<name>>]
    /\ IF Has(people, name)
       THEN /\ out' = <<>>
            /\ UNCHANGED <<people, heap>>
       ELSE /\ heap' = Append(heap, Person(name))
            /\ people' = Set(people, name, Len(heap) + 1)
            /\ out' = <<>>
    /\ exc' = "none"

\* SocialNetwork.add_person
add_person(name) ==
    /\ exc = "none"
    /\ call' = [op |-> "add_person", args |-> <<name>>]
    /\ IF Has(people, name)
       THEN /\ out' = <<MsgAlreadyExists(name)>>
            /\ UNCHANGED <<people, heap>>
       ELSE /\ heap' = Append(heap, Person(name))
            /\ people' = Set(people, name, Len(heap) + 1)
            /\ out' = <<>>
    /\ exc' = "none"

\* A buggy lines 71-75 that records the friendship on p1's side only.
link_oneside(person1_name, person2_name) ==
    IF ~Has(people, person1_name) \/ ~Has(people, person2_name)
    THEN /\ exc' = "KeyError"
         /\ UNCHANGED <<people, heap>>
    ELSE LET p1 == Get(people, person1_name)
             p2 == Get(people, person2_name)
         IN /\ heap' = add_friend(heap, p1, p2)
            /\ exc' = "none"
            /\ UNCHANGED people

\* A buggy lines 71-75 whose second call is p2.add_friend(p2).
link_typo(person1_name, person2_name) ==
    IF ~Has(people, person1_name) \/ ~Has(people, person2_name)
    THEN /\ exc' = "KeyError"
         /\ UNCHANGED <<people, heap>>
    ELSE LET p1 == Get(people, person1_name)
             p2 == Get(people, person2_name)
         IN /\ heap' = add_friend(add_friend(heap, p1, p2), p2, p2)
            /\ exc' = "none"
            /\ UNCHANGED people

\* Lines 71-75 of add_friendship: the two dict lookups and the two add_friend
\* calls.  A lookup of a missing key raises KeyError and nothing is mutated.
link(person1_name, person2_name) ==
    IF ~Has(people, person1_name) \/ ~Has(people, person2_name)
    THEN /\ exc' = "KeyError"
         /\ UNCHANGED <<people, heap>>
    ELSE LET p1 == Get(people, person1_name)
             p2 == Get(people, person2_name)
         IN /\ heap' = add_friend(add_friend(heap, p1, p2), p2, p1)
            /\ exc' = "none"
            /\ UNCHANGED people

\* A buggy add_friendship without the check of lines 67-69 that appends to
\* the two friends lists itself instead of calling add_friend.
add_friendship_append(person1_name, person2_name) ==
    /\ exc = "none"
    /\ call' = [op |-> "add_friendship", args |-> <<person1_name, person2_name>>]
    /\ IF ~Has(people, person1_name)
       THEN /\ out' = <<MsgDoesntExist(person1_name)>>
            /\ exc' = "none"
            /\ UNCHANGED <<people, heap>>
       ELSE IF ~Has(people, person2_name)
       THEN /\ out' = <<MsgDoesntExist(person2_name)>>
            /\ exc' = "none"
            /\ UNCHANGED <<people, heap>>
       ELSE LET p1 == Get(people, person1_name)
                p2 == Get(people, person2_name)
                h1 == IF Contains(heap[p1].friends, p2) THEN heap
                      ELSE [heap EXCEPT ![p1].friends = Append(@, p2)]
                h2 == IF Contains(h1[p2].friends, p1) THEN h1
                      ELSE [h1 EXCEPT ![p2].friends = Append(@, p1)]
            IN /\ out' = <<>>
               /\ heap' = h2
               /\ exc' = "none"
               /\ UNCHANGED people

\* A buggy add_friendship that prints a message when the two are friends already.
add_friendship_reports_repeat(person1_name, person2_name) ==
    /\ exc = "none"
    /\ call' = [op |-> "add_friendship", args |-> <<person1_name, person2_name>>]
    /\ IF ~Has(people, person1_name)
       THEN /\ out' = <<MsgDoesntExist(person1_name)>>
            /\ exc' = "none"
            /\ UNCHANGED <<people, heap>>
       ELSE IF ~Has(people, person2_name)
       THEN /\ out' = <<MsgDoesntExist(person2_name)>>
            /\ exc' = "none"
            /\ UNCHANGED <<people, heap>>
       ELSE IF person1_name = person2_name
       THEN /\ out' = <<MsgSelf>>
            /\ exc' = "none"
            /\ UNCHANGED <<people, heap>>
       ELSE IF Contains(heap[Get(people, person1_name)].friends, Get(people, person2_name))
       THEN /\ out' = <<"Friendship not created. Already friends!">>
            /\ exc' = "none"
            /\ UNCHANGED <<people, heap>>
       ELSE /\ out' = <<>>
            /\ link(person1_name, person2_name)

\* A buggy add_friendship without the self-friendship check of lines 67-69.
add_friendship_noselfcheck(person1_name, person2_name) ==
    /\ exc = "none"
    /\ call' = [op |-> "add_friendship", args |-> <<person1_name, person2_name>>]
    /\ IF ~Has(people, person1_name)
       THEN /\ out' = <<MsgDoesntExist(person1_name)>>
            /\ exc' = "none"
            /\ UNCHANGED <<people, heap>>
       ELSE IF ~Has(people, person2_name)
       THEN /\ out' = <<MsgDoesntExist(person2_name)>>
            /\ exc' = "none"
            /\ UNCHANGED <<people, heap>>
       ELSE /\ out' = <<>>
            /\ link(person1_name, person2_name)

\* A buggy add_friendship whose second message names person1 (line 65).
add_friendship_wrongname(person1_name, person2_name) ==
    /\ exc = "none"
    /\ call' = [op |-> "add_friendship", args |-> <<person1_name, person2_name>>]
    /\ IF ~Has(people, person1_name)
       THEN /\ out' = <<MsgDoesntExist(person1_name)>>
            /\ exc' = "none"
            /\ UNCHANGED <<people, heap>>
       ELSE IF ~Has(people, person2_name)
       THEN /\ out' = <<MsgDoesntExist(person1_name)>>
            /\ exc' = "none"
            /\ UNCHANGED <<people, heap>>
       ELSE IF person1_name = person2_name
       THEN /\ out' = <<MsgSelf>>
            /\ exc' = "none"
            /\ UNCHANGED <<people, heap>>
       ELSE /\ out' = <<>>
            /\ link(person1_name, person2_name)

\* A buggy add_friendship that makes the checks in the order
\* self-friendship, person2 missing, person1 missing.
add_friendship_reordered(person1_name, person2_name) ==
    /\ exc = "none"
    /\ call' = [op |-> "add_friendship", args |-> <<person1_name, person2_name>>]
    /\ IF person1_name = person2_name
       THEN /\ out' = <<MsgSelf>>
            /\ exc' = "none"
            /\ UNCHANGED <<people, heap>>
       ELSE IF ~Has(people, person2_name)
       THEN /\ out' = <<MsgDoesntExist(person2_name)>>
            /\ exc' = "none"
            /\ UNCHANGED <<people, heap>>
       ELSE IF ~Has(people, person1_name)
       THEN /\ out' = <<MsgDoesntExist(person1_name)>>
            /\ exc' = "none"
            /\ UNCHANGED <<people, heap>>
       ELSE /\ out' = <<>>
            /\ link(person1_name, person2_name)

\* A buggy add_friendship without the check of person2_name (lines 64-66).
add_friendship_nocheck2(person1_name, person2_name) ==
    /\ exc = "none"
    /\ call' = [op |-> "add_friendship", args |-> <<person1_name, person2_name>>]
    /\ IF ~Has(people, person1_name)
       THEN /\ out' = <<MsgDoesntExist(person1_name)>>
            /\ exc' = "none"
            /\ UNCHANGED <<people, heap>>
       ELSE IF person1_name = person2_name
       THEN /\ out' = <<MsgSelf>>
            /\ exc' = "none"
            /\ UNCHANGED <<people, heap>>
       ELSE /\ out' = <<>>
            /\ link(person1_name, person2_name)

\* SocialNetwork.add_friendship
add_friendship(person1_name, person2_name) ==
    /\ exc = "none"
    /\ call' = [op |-> "add_friendship", args |-> <<person1_name, person2_name>>]
    /\ IF ~Has(people, person1_name)
       THEN /\ out' = <<MsgDoesntExist(person1_name)>>
            /\ exc' = "none"
            /\ UNCHANGED <<people, heap>>
       ELSE IF ~Has(people, person2_name)
       THEN /\ out' = <<MsgDoesntExist(person2_name)>>
            /\ exc' = "none"
            /\ UNCHANGED <<people, heap>>
       ELSE IF person1_name = person2_name
       THEN /\ out' = <<MsgSelf>>
            /\ exc' = "none"
            /\ UNCHANGED <<people, heap>>
       ELSE /\ out' = <<>>
            /\ link(person1_name, person2_name)

\* A buggy loop body that joins the friends' names without sorting them.
report_line_nosort(h, person) ==
    LET friend_names == [i \in 1..Len(person.friends) |-> h[person.friends[i]].name]
        friends_str == IF friend_names # <<>> THEN Join(", ", friend_names)
                       ELSE "(no friends yet)"
    IN person.name \o " is friends with: " \o friends_str

\* One iteration of the loop of print_network (lines 80-83): the line printed
\* for `person`, the Person objects being those of h
report_line(h, person) ==
    LET friend_names == Sorted([i \in 1..Len(person.friends) |-> h[person.friends[i]].name])
        friends_str == IF friend_names # <<>> THEN Join(", ", friend_names)
                       ELSE "(no friends yet)"
    IN person.name \o " is friends with: " \o friends_str

\* One iteration of the loop of print_network: the line for `person`
network_line(person) == report_line(heap, person)

\* The lines print_network prints for the registry p and the objects h
report(p, h) == [i \in 1..Len(p) |-> report_line(h, h[p[i].value])]

\* A buggy print_network that sorts each person's stored friends list by
\* name instead of a list of the names.
print_network_sorts_in_place ==
    /\ exc = "none"
    /\ call' = [op |-> "print_network", args |-> <<>>]
    /\ out' = [i \in 1..Len(people) |-> network_line(heap[people[i].value])]
    /\ heap' = [o \in 1..Len(heap) |->
                  LET names == Sorted([i \in 1..Len(heap[o].friends) |-> heap[heap[o].friends[i]].name])
                  IN [heap[o] EXCEPT !.friends = [i \in 1..Len(names) |-> Get(people, names[i])]]]
    /\ exc' = "none"
    /\ UNCHANGED people

\* SocialNetwork.print_network
print_network ==
    /\ exc = "none"
    /\ call' = [op |-> "print_network", args |-> <<>>]
    /\ out' = [i \in 1..Len(people) |-> network_line(heap[people[i].value])]
    /\ exc' = "none"
    /\ UNCHANGED <<people, heap>>

(* ------------------- the methods as functions of the state ------------- *)

\* The network as a value: registry, objects, and the lines and exception
\* of the last call.
Network(p, h) == [people |-> p, heap |-> h, out |-> <<>>, exc |-> "none"]

\* SocialNetwork.add_person: the network after s.add_person(name)
after_add_person(s, name) ==
    IF Has(s.people, name)
    THEN [s EXCEPT !.out = <<MsgAlreadyExists(name)>>, !.exc = "none"]
    ELSE [people |-> Set(s.people, name, Len(s.heap) + 1),
          heap |-> Append(s.heap, Person(name)),
          out |-> <<>>,
          exc |-> "none"]

\* SocialNetwork.add_friendship: the network after
\* s.add_friendship(person1_name, person2_name)
after_add_friendship(s, person1_name, person2_name) ==
    IF ~Has(s.people, person1_name)
    THEN [s EXCEPT !.out = <<MsgDoesntExist(person1_name)>>, !.exc = "none"]
    ELSE IF ~Has(s.people, person2_name)
    THEN [s EXCEPT !.out = <<MsgDoesntExist(person2_name)>>, !.exc = "none"]
    ELSE IF person1_name = person2_name
    THEN [s EXCEPT !.out = <<MsgSelf>>, !.exc = "none"]
    ELSE LET p1 == Get(s.people, person1_name)
             p2 == Get(s.people, person2_name)
         IN [s EXCEPT !.heap = add_friend(add_friend(s.heap, p1, p2), p2, p1),
                      !.out = <<>>,
                      !.exc = "none"]

\* SocialNetwork.print_network: the network after s.print_network()
after_print_network(s) ==
    [s EXCEPT !.out = report(s.people, s.heap), !.exc = "none"]

\* The network after one call c = [op, args]
after_call(s, c) ==
    IF c.op = "add_person" THEN after_add_person(s, c.args[1])
    ELSE IF c.op = "add_friendship" THEN after_add_friendship(s, c.args[1], c.args[2])
    ELSE after_print_network(s)

RECURSIVE after_calls(_, _)
\* The network after the calls of the sequence cs, made in order
after_calls(s, cs) ==
    IF cs = <<>> THEN s
    ELSE after_calls(after_call(s, Head(cs)), Tail(cs))

Next ==
    \/ \E name \in PersonNames : add_person(name)
    \/ \E a, b \in Names : add_friendship(a, b)
    \/ print_network

Spec == Init /\ [][Next]_vars

(* ----------------------------- properties ------------------------------ *)

\* name is a key of the registry
Registered(name) == Has(people, name)

\* the Person object stored under a registered name
Node(name) == Get(people, name)

\* the friends list of the Person stored under a registered name
FriendsOf(name) == heap[Node(name)].friends

AddPersonCall(x) == [op |-> "add_person", args |-> <<x>>]

AddFriendshipCall(a, b) == [op |-> "add_friendship", args |-> <<a, b>>]

\* C1: in every reachable state, for all registered persons a and b, b is in
\* a's friends list if and only if a is in b's friends list.
C1_Symmetry ==
    \A a, b \in Names :
        (Registered(a) /\ Registered(b)) =>
            (Contains(FriendsOf(a), Node(b)) <=> Contains(FriendsOf(b), Node(a)))

\* An add_friendship call has returned and left an edge between two persons.
C1_Witness ==
    \E a, b \in Names :
        /\ a # b
        /\ call = AddFriendshipCall(a, b)
        /\ Registered(a) /\ Registered(b)
        /\ Contains(FriendsOf(a), Node(b))

\* C2: in every reachable state, every Person object in a registered person's
\* friends list is the object stored in the registry under its own name.
C2_NoDanglingEdges ==
    \A i \in 1..Len(people) :
        LET friends == heap[people[i].value].friends
        IN \A j \in 1..Len(friends) :
              /\ Has(people, heap[friends[j]].name)
              /\ Get(people, heap[friends[j]].name) = friends[j]

\* add_person was called again for a person who already has a friend.
C2_Witness ==
    \E x \in Names :
        /\ call = AddPersonCall(x)
        /\ Registered(x)
        /\ FriendsOf(x) # <<>>

\* C3: in every reachable state, no registered person is in their own
\* friends list.
C3_NoSelfLoop ==
    \A x \in Names : Registered(x) => ~Contains(FriendsOf(x), Node(x))

\* add_friendship(x, x) has returned for a registered x who has friends.
C3_Witness ==
    \E x \in Names :
        /\ call = AddFriendshipCall(x, x)
        /\ Registered(x)
        /\ Len(FriendsOf(x)) >= 1

\* C4: in every reachable state, no Person occurs twice in a friends list.
C4_NoDuplicateNeighbors ==
    \A o \in 1..Len(heap) :
        \A i, j \in 1..Len(heap[o].friends) :
            heap[o].friends[i] = heap[o].friends[j] => i = j

\* add_friendship(a, b) has returned for a pair that was linked before: b is
\* in a's list ahead of a friend added later, so this call did not append it.
C4_Witness ==
    \E a, b \in Names :
        /\ a # b
        /\ call = AddFriendshipCall(a, b)
        /\ Registered(a) /\ Registered(b)
        /\ Len(FriendsOf(a)) >= 2
        /\ FriendsOf(a)[1] = Node(b)

\* C5: add_person(x) for an x that is registered already prints the "already
\* exists" message and leaves the registry (entries and order) and every
\* friends list as they were, with exactly one entry and one Person for x.
C5_DuplicatePersonNoOp ==
    [][\A x \in Names :
          (call' = AddPersonCall(x) /\ Registered(x)) =>
              /\ out' = <<MsgAlreadyExists(x)>>
              /\ people' = people
              /\ heap' = heap
              /\ Cardinality({i \in 1..Len(people') : people'[i].key = x}) = 1
              /\ Cardinality({o \in 1..Len(heap') : heap'[o].name = x}) = 1]_vars

\* The second add_person(x) has returned, x having made a friend in between.
C5_Witness ==
    \E x \in Names :
        /\ call = AddPersonCall(x)
        /\ out = <<MsgAlreadyExists(x)>>
        /\ Len(FriendsOf(x)) >= 1

\* C6: when add_friendship(a, b), a # b both registered, has just returned,
\* calling add_friendship(a, b) again changes no friends list and no registry
\* entry and prints nothing.
C6_FriendshipIdempotent ==
    [][\A a, b \in Names :
          (/\ a # b
           /\ Registered(a) /\ Registered(b)
           /\ call = AddFriendshipCall(a, b)
           /\ call' = AddFriendshipCall(a, b)) =>
              /\ heap' = heap
              /\ people' = people
              /\ out' = <<>>]_vars

\* add_friendship(a, b) has returned silently with both sides linked: the
\* state after the first call, and after the repeat.
C6_Witness ==
    \E a, b \in Names :
        /\ a # b
        /\ call = AddFriendshipCall(a, b)
        /\ out = <<>>
        /\ Registered(a) /\ Registered(b)
        /\ Contains(FriendsOf(a), Node(b))
        /\ Contains(FriendsOf(b), Node(a))

\* C7: add_friendship(a, a) for a registered a prints the self-friendship
\* message and changes no friends list and no registry entry.
C7_SelfFriendshipRejected ==
    [][\A a \in Names :
          (call' = AddFriendshipCall(a, a) /\ Registered(a)) =>
              /\ out' = <<MsgSelf>>
              /\ heap' = heap
              /\ people' = people]_vars

\* add_friendship(a, a) has returned with the self-friendship message.
C7_Witness ==
    \E a \in Names :
        /\ call = AddFriendshipCall(a, a)
        /\ Registered(a)
        /\ out = <<MsgSelf>>

\* C8: add_friendship(a, b) with a registered and b not prints "b doesn't
\* exist" and changes nothing (b is not created); with a not registered it
\* prints "a doesn't exist" and changes nothing.
C8_UnknownPersonRejected ==
    [][\A a, b \in Names :
          /\ (call' = AddFriendshipCall(a, b) /\ Registered(a) /\ ~Registered(b)) =>
                /\ out' = <<MsgDoesntExist(b)>>
                /\ people' = people
                /\ heap' = heap
                /\ ~Has(people', b)
          /\ (call' = AddFriendshipCall(a, b) /\ ~Registered(a)) =>
                /\ out' = <<MsgDoesntExist(a)>>
                /\ people' = people
                /\ heap' = heap
                /\ ~Has(people', a)]_vars

\* add_friendship(a, b) has returned naming the unregistered b, a having a
\* friend already.
C8_Witness ==
    \E a, b \in Names :
        /\ call = AddFriendshipCall(a, b)
        /\ Registered(a) /\ ~Registered(b)
        /\ out = <<MsgDoesntExist(b)>>
        /\ Len(FriendsOf(a)) >= 1

\* The diagnostic of the first of the three conditions that holds for
\* add_friendship(a, b) in the current state, <<>> when none holds.
FirstCondition(a, b) ==
    IF ~Registered(a) THEN <<MsgDoesntExist(a)>>
    ELSE IF ~Registered(b) THEN <<MsgDoesntExist(b)>>
    ELSE IF a = b THEN <<MsgSelf>>
    ELSE <<>>

\* C9: add_friendship reports exactly the first that holds of: a missing,
\* b missing, a = b.  With both missing only a is named, and
\* add_friendship(x, x) with x missing never reports self-friendship.
C9_PreconditionOrder ==
    [][\A a, b \in Names :
          call' = AddFriendshipCall(a, b) =>
              /\ out' = FirstCondition(a, b)
              /\ (a # b /\ ~Registered(a) /\ ~Registered(b)) =>
                    (out' = <<MsgDoesntExist(a)>> /\ out' # <<MsgDoesntExist(b)>>)
              /\ (a = b /\ ~Registered(a)) =>
                    (out' = <<MsgDoesntExist(a)>> /\ out' # <<MsgSelf>>)]_vars

\* add_friendship(a, b) has returned with neither a nor b registered.
C9_Witness ==
    \E a, b \in Names :
        /\ a # b
        /\ call = AddFriendshipCall(a, b)
        /\ ~Registered(a) /\ ~Registered(b)
        /\ out = <<MsgDoesntExist(a)>>

\* One of the three conditions holds for the call c in the current state.
ConditionHolds(c) ==
    IF c.op = "add_person" THEN Registered(c.args[1])
    ELSE \/ ~Registered(c.args[1])
         \/ ~Registered(c.args[2])
         \/ c.args[1] = c.args[2]

\* The three kinds of diagnostic.
Diagnostics ==
    {MsgAlreadyExists(x) : x \in Names} \cup {MsgDoesntExist(x) : x \in Names} \cup {MsgSelf}

\* C10: add_person and add_friendship never raise; they print exactly one
\* diagnostic when one of the three conditions holds and nothing otherwise.
C10_NoRaiseOneDiagnostic ==
    [][call'.op \in {"add_person", "add_friendship"} =>
          /\ exc' = "none"
          /\ \A i \in 1..Len(out') : out'[i] \in Diagnostics
          /\ Len(out') = IF ConditionHolds(call') THEN 1 ELSE 0]_vars

\* A successful add_friendship(a, b) has returned without raising and
\* without printing.
C10_Witness ==
    \E a, b \in Names :
        /\ a # b
        /\ call = AddFriendshipCall(a, b)
        /\ Registered(a) /\ Registered(b)
        /\ exc = "none"
        /\ out = <<>>
        /\ Len(FriendsOf(a)) = 1

\* The call print_network()
PrintNetworkCall == [op |-> "print_network", args |-> <<>>]

\* Every call leaves the network as the method, taken as a function of the
\* network before the call, says.
CallsAgree ==
    LET t == after_call(Network(people, heap), call')
    IN /\ people' = t.people
       /\ heap' = t.heap
       /\ out' = t.out
       /\ exc' = t.exc

\* The names of the set S in ascending lexicographic order.
Ascending(S) ==
    CHOOSE ns \in [1..Cardinality(S) -> S] :
        /\ \A x \in S : \E i \in 1..Cardinality(S) : ns[i] = x
        /\ \A i, j \in 1..Cardinality(S) : i < j => StrLess(ns[i], ns[j])

\* The line the report is to hold for a person named `name` whose neighbors
\* have the names of the set S.
LineFor(name, S) ==
    name \o " is friends with: " \o
        (IF S = {} THEN "(no friends yet)" ELSE Join(", ", Ascending(S)))

\* The names of the Persons in the friends list of the object o of h.
NeighborNames(h, o) == {h[h[o].friends[i]].name : i \in 1..Len(h[o].friends)}

\* One line per person, in the order in which the persons were created by
\* their first successful add_person.
ExpectedReport == [o \in 1..Len(heap) |-> LineFor(heap[o].name, NeighborNames(heap, o))]

\* The calls of the demo, lines 91-118 and 121.
DemoCalls ==
    << AddPersonCall("Alex"), AddPersonCall("Jordan"), AddPersonCall("Morgan"),
       AddPersonCall("Taylor"), AddPersonCall("Casey"), AddPersonCall("Riley"),
       AddPersonCall("Alex"),
       AddFriendshipCall("Alex", "Jordan"), AddFriendshipCall("Alex", "Morgan"),
       AddFriendshipCall("Jordan", "Taylor"), AddFriendshipCall("Morgan", "Casey"),
       AddFriendshipCall("Taylor", "Riley"), AddFriendshipCall("Casey", "Riley"),
       AddFriendshipCall("Morgan", "Riley"), AddFriendshipCall("Alex", "Taylor"),
       AddFriendshipCall("Jordan", "Johnny"),
       AddFriendshipCall("Alex", "Jordan"),
       AddFriendshipCall("Alex", "Alex"),
       PrintNetworkCall >>

\* What the demo's print_network prints.
DemoReport == after_calls(Network(<<>>, <<>>), DemoCalls).out

\* The six lines the demo is to print.
DemoLines ==
    << "Alex is friends with: Jordan, Morgan, Taylor",
       "Jordan is friends with: Alex, Taylor",
       "Morgan is friends with: Alex, Casey, Riley",
       "Taylor is friends with: Alex, Jordan, Riley",
       "Casey is friends with: Morgan, Riley",
       "Riley is friends with: Casey, Morgan, Taylor" >>

\* C11: print_network prints one line per registered person, in the order of
\* the persons' first successful add_person, each "<name> is friends with: "
\* followed by the neighbors' names in ascending order joined by ", ", or by
\* "(no friends yet)"; the demo's calls print the six lines of DemoLines.
C11_ReportContent ==
    [][/\ CallsAgree
       /\ call' = PrintNetworkCall =>
             /\ Len(out') = Len(people)
             /\ \A i \in 1..Len(people) : people[i].value = i
             /\ out' = ExpectedReport
       /\ DemoReport = DemoLines]_vars

\* print_network has printed three persons, one of them with two friends
\* stored in descending order of name.
C11_Witness ==
    /\ call = PrintNetworkCall
    /\ Len(out) = 3
    /\ \E x \in Names :
          /\ Registered(x)
          /\ Len(FriendsOf(x)) = 2
          /\ StrLess(heap[FriendsOf(x)[2]].name, heap[FriendsOf(x)[1]].name)

\* C12: print_network changes neither the registry nor any friends list
\* (contents and stored order), and called twice in a row it prints the same
\* lines both times.
C12_PrintIsPureRead ==
    [][call' = PrintNetworkCall =>
          /\ people' = people
          /\ heap' = heap
          /\ call = PrintNetworkCall => out' = out
          /\ after_print_network(after_print_network(Network(people, heap))).out = out']_vars

\* print_network has returned with its lines while some friends list is
\* stored in an order other than the printed one.
C12_Witness ==
    /\ call = PrintNetworkCall
    /\ out = report(people, heap)
    /\ \E o \in 1..Len(heap) :
          /\ Len(heap[o].friends) >= 2
          /\ StrLess(heap[heap[o].friends[2]].name, heap[heap[o].friends[1]].name)
          /\ out[o] = LineFor(heap[o].name, NeighborNames(heap, o))

\* C13: add_person(x) for an x that is not registered appends one entry for
\* x to the registry, holding a new Person named x with an empty friends
\* list, and leaves every earlier entry and every earlier Person, friends
\* list included, as it was; nothing is printed.
C13_AddPersonEffect ==
    [][\A x \in Names :
          (call' = AddPersonCall(x) /\ ~Registered(x)) =>
              /\ Len(people') = Len(people) + 1
              /\ SubSeq(people', 1, Len(people)) = people
              /\ people'[Len(people')].key = x
              /\ Cardinality({i \in 1..Len(people') : people'[i].key = x}) = 1
              /\ people'[Len(people')].value \notin 1..Len(heap)
              /\ heap'[people'[Len(people')].value] = [name |-> x, friends |-> <<>>]
              /\ Len(heap') = Len(heap) + 1
              /\ \A o \in 1..Len(heap) : heap'[o] = heap[o]
              /\ out' = <<>>]_vars

\* add_person(x) has registered x as the last of three, the two earlier
\* persons being friends.
C13_Witness ==
    \E x \in Names :
        /\ call = AddPersonCall(x)
        /\ out = <<>>
        /\ Len(people) = 3
        /\ people[3].key = x
        /\ FriendsOf(x) = <<>>
        /\ heap[people[1].value].friends # <<>>

\* The neighbor set of the object o of h: the Persons in its friends list.
Neighbors(h, o) == {h[o].friends[i] : i \in 1..Len(h[o].friends)}

\* C14: add_friendship(a, b) with a # b both registered makes a's neighbor
\* set its old set plus b and b's its old set plus a, and leaves the registry
\* and every other person's neighbor set unchanged.
C14_AddFriendshipEffect ==
    [][\A a, b \in Names :
          (/\ call' = AddFriendshipCall(a, b)
           /\ a # b
           /\ Registered(a) /\ Registered(b)) =>
              /\ Neighbors(heap', Node(a)) = Neighbors(heap, Node(a)) \cup {Node(b)}
              /\ Neighbors(heap', Node(b)) = Neighbors(heap, Node(b)) \cup {Node(a)}
              /\ people' = people
              /\ Len(heap') = Len(heap)
              /\ \A o \in 1..Len(heap) :
                    /\ heap'[o].name = heap[o].name
                    /\ o \notin {Node(a), Node(b)} => Neighbors(heap', o) = Neighbors(heap, o)]_vars

\* add_friendship(a, b) has just added b to a, who had a friend before, and
\* a to b.
C14_Witness ==
    \E a, b \in Names :
        /\ a # b
        /\ call = AddFriendshipCall(a, b)
        /\ Registered(a) /\ Registered(b)
        /\ Len(FriendsOf(a)) = 2
        /\ FriendsOf(a)[2] = Node(b)
        /\ FriendsOf(b)[Len(FriendsOf(b))] = Node(a)

\* C15: in every step, every registered name stays registered with the same
\* Person object, every Person keeps its name, and every neighbor set keeps
\* all its members: nothing is ever removed.
C15_MonotonicGrowth ==
    [][/\ \A i \in 1..Len(people) :
             /\ Has(people', people[i].key)
             /\ Get(people', people[i].key) = people[i].value
       /\ Len(heap') >= Len(heap)
       /\ \A o \in 1..Len(heap) :
             /\ heap'[o].name = heap[o].name
             /\ Neighbors(heap, o) \subseteq Neighbors(heap', o)]_vars

\* All three persons are registered and each is a friend of the other two,
\* after calls of all three methods.
C15_Witness ==
    /\ Len(people) = 3
    /\ \A o \in 1..Len(heap) : Cardinality(Neighbors(heap, o)) = 2
    /\ call = PrintNetworkCall
    /\ Len(out) = Len(people)

\* Longest sequence of add_friendship calls compared across orders.
MaxPairs == 2

\* The pairs <<a, b>> for which add_friendship(a, b) succeeds now.
SuccessfulPairs ==
    {pr \in Names \X Names : pr[1] # pr[2] /\ Registered(pr[1]) /\ Registered(pr[2])}

\* The sequences of at most MaxPairs such pairs.
PairSeqs == UNION {[1..n -> SuccessfulPairs] : n \in 0..MaxPairs}

\* The network after add_friendship has been called with the pairs of ps, in
\* order, from the current state.
AfterPairs(ps) ==
    after_calls(Network(people, heap),
                [i \in 1..Len(ps) |-> AddFriendshipCall(ps[i][1], ps[i][2])])

\* The persons linked to the object o by a pair of ps, in either orientation.
LinkedBy(ps, o) ==
    {Node(y) : y \in {z \in Names : \E i \in 1..Len(ps) :
                        \/ (Node(ps[i][1]) = o /\ ps[i][2] = z)
                        \/ (Node(ps[i][2]) = o /\ ps[i][1] = z)}}

\* C16: add_friendship(a, b) and add_friendship(b, a) give the same neighbor
\* sets, and after any sequence of successful add_friendship calls the
\* neighbor sets and the lines print_network prints depend only on the set
\* of pairs linked, not on their order or orientation.
C16_OrderIndependence ==
    /\ \A pr \in SuccessfulPairs :
          LET t == AfterPairs(<<pr>>)
              u == AfterPairs(<<<<pr[2], pr[1]>>>>)
          IN /\ \A o \in 1..Len(heap) : Neighbors(t.heap, o) = Neighbors(u.heap, o)
             /\ report(t.people, t.heap) = report(u.people, u.heap)
    /\ \A ps \in PairSeqs :
          LET t == AfterPairs(ps)
          IN /\ t.people = people
             /\ Len(t.heap) = Len(heap)
             /\ \A o \in 1..Len(heap) :
                   Neighbors(t.heap, o) = Neighbors(heap, o) \cup LinkedBy(ps, o)
             /\ report(t.people, t.heap) =
                   [i \in 1..Len(people) |->
                       LET o == people[i].value
                       IN LineFor(heap[o].name,
                                  {heap[f].name : f \in Neighbors(heap, o) \cup LinkedBy(ps, o)})]

\* Three persons are registered and the same two friendships, made in the
\* two possible orders, leave friends lists that differ in stored order.
C16_Witness ==
    \E a, b, c \in Names :
        /\ Registered(a) /\ Registered(b) /\ Registered(c)
        /\ a # b /\ a # c /\ b # c
        /\ AfterPairs(<< <<a, b>>, <<a, c>> >>).heap # AfterPairs(<< <<a, c>>, <<a, b>> >>).heap
        /\ AfterPairs(<< <<a, b>>, <<a, c>> >>).heap[Node(a)].friends = <<Node(b), Node(c)>>

====
